---- MODULE Spec2Model ----
(***************************************************************************)
(* State-machine model of bt10.py: a BLE-MIDI recorder for the WU-BT10.    *)
(*                                                                         *)
(* Three coroutines share one asyncio event loop:                          *)
(*   main               creates the queue and gathers the two tasks,       *)
(*   run_ble_client     the producer: scans, connects, subscribes, and     *)
(*                      enqueues (T_elapsed, data) per notification and    *)
(*                      (T_elapsed, None) after the operator pressed Enter,*)
(*   run_queue_consumer the consumer: decodes each payload group by group, *)
(*                      unwraps the 13-bit device clock, pairs note-on     *)
(*                      with note-off, sends live and records the file.    *)
(*                                                                         *)
(* The loop is cooperative: a coroutine runs from one await to the next    *)
(* without interruption.  The consumer has no await between queue.get()    *)
(* and the next queue.get(), so while it is inside a packet (cpc = "loop") *)
(* no other coroutine takes a step.                                        *)
(*                                                                         *)
(* Times are milliseconds.  The program computes them as floats from       *)
(* time.time(); the model uses integer milliseconds.                       *)
(* Python indexes bytes from 0, TLA+ sequences from 1: data[i] is          *)
(* Byte(data, i) == data[i + 1].                                           *)
(***************************************************************************)
EXTENDS Integers, Sequences, FiniteSets, TLC

VARIABLES
    stream,       \* which traffic the keyboard emits in this session (input class)
    ppc,          \* run_ble_client: position
    connected,    \* the BLE link is up
    streamed,     \* history: start_notify has returned, the session reached Streaming
    now,          \* 1000 * (time.time() - T_start) of the producer
    queue,        \* asyncio.Queue contents, oldest first
    cpc,          \* run_queue_consumer: position
    T_cycle0,     \* consumer local: the session epoch
    E_ON,         \* consumer local: pending note-ons, [T_event, pitch, velocity]
    T_elapsed,    \* consumer local: arrival time of the message taken last
    data,         \* consumer local: payload of the message taken last
    a,            \* consumer local: group index of the for loop
    high,         \* consumer local: high field of the packet clock
    low0,         \* consumer local: previous low field
    N,            \* consumer local: wrap count estimate
    midi_file,    \* MIDIFile contents: addNote / addControllerEvent calls, in order
    midi_out,     \* messages sent to the rtmidi port, in order
    port,         \* state of the rtmidi port
    fileWrites,   \* number of times <file_name>.mid was written
    unmatchedLog, \* the count logged at line 86, -1 when nothing was logged
    mpc,          \* main: position
    enqueued,     \* history: every message put on the queue, in order
    taken,        \* history: every message the consumer got from the queue, in order
    subs          \* history: one record per decoded group (sub-event)

vars == <<stream, ppc, connected, streamed, now, queue, cpc, T_cycle0, E_ON, T_elapsed,
          data, a, high, low0, N, midi_file, midi_out, port, fileWrites,
          unmatchedLog, mpc, enqueued, taken, subs>>

prodVars == <<ppc, connected, now, queue, enqueued>>
consLocals == <<T_elapsed, data, a, high, low0, N>>
noteVars == <<E_ON, midi_file, midi_out>>
endVars == <<port, fileWrites, unmatchedLog>>

----------------------------------------------------------------------------
(* Bounds and program constants *)

MaxPackets == 3        \* notifications delivered in one session

bpm == 120
Cycle == 8192
HalfCycle == 4096

None == <<-1>>         \* the data of the sentinel message (Python None)

Abs(x) == IF x < 0 THEN -x ELSE x

Byte(d, i) == d[i + 1]

\* quarter(): milliseconds per beat
quarter == (1000 * 60) \div bpm

\* ms / quarter(), kept as the exact fraction num/den in beats
Beats(ms) == [num |-> ms, den |-> quarter]

----------------------------------------------------------------------------
(* Input classes: the notifications the device may deliver.  Each is a     *)
(* host-clock advance dt since the previous notification and a payload.    *)

\* header bytes: 0x80 (high 0), 0xA7 (high 39), 0xBF (high 63)
\* timestamp bytes: 0x80 (low 0), 0x88 (low 8)
ClockPayloads ==
    { <<128, 128, 128, 60, 64>>,
      <<128, 136, 144, 60, 100>>,
      <<167, 136, 128, 60, 64>>,
      <<191, 136, 144, 60, 100, 128, 128, 60, 64>> }

NotePayloads ==
    { <<128, 128, 144, 60, 100>>,
      <<128, 128, 144, 60, 50>>,
      <<128, 136, 128, 60, 64>>,
      <<128, 136, 128, 64, 64>>,
      <<128, 128, 176, 7, 100>>,
      <<128, 128, 224, 0, 64>>,
      <<128, 128, 144, 60, 100, 136, 144, 64, 90>>,
      <<128, 136, 144, 60, 100, 128, 145, 60, 100>> }

PipePayloads ==
    { <<>>,
      <<128>>,
      <<128, 128, 144>>,
      <<128, 128, 144, 60, 100>>,
      <<128, 136, 128, 60, 64>>,
      <<128, 128, 144, 60, 100, 136>> }

\* a packet whose first group has local clock 8072 and whose second group
\* rolls over, and a one-group packet with local clock 0
WrapPayloads ==
    { <<191, 136, 144, 60, 100, 128, 128, 60, 64>>,
      <<128, 128, 128, 60, 64>> }

Streams == {"clock", "notes", "pipe", "wrap"}

Notifications(s) ==
    CASE s = "clock" -> [dt : {0, 4000}, data : ClockPayloads]
      [] s = "notes" -> [dt : {100}, data : NotePayloads]
      [] s = "pipe"  -> [dt : {100}, data : PipePayloads]
      [] s = "wrap"  -> [dt : {8072}, data : WrapPayloads]

----------------------------------------------------------------------------
(* The queue *)

Msg(t, d) == [T |-> t, data |-> d]

QueuePut(q, m) == Append(q, m)

\* faulty variant: the newest message is taken
QueueGet_last(q) == q[Len(q)]

QueueGet(q) == q[1]

QueueRest(q) == Tail(q)

\* faulty variant: 'if not data' instead of 'if data is None'
IsNone_falsy(d) == d = None \/ Len(d) = 0

IsNone(d) == d = None

NumPackets(h) == Cardinality({i \in 1..Len(h) : h[i].data # None})

NumSentinels(h) == Cardinality({i \in 1..Len(h) : h[i].data = None})

----------------------------------------------------------------------------
Init ==
    /\ stream \in Streams
    /\ ppc = "scan"
    /\ connected = FALSE
    /\ streamed = FALSE
    /\ now = 0
    /\ queue = <<>>
    /\ cpc = "start"
    /\ T_cycle0 = 0
    /\ E_ON = <<>>
    /\ T_elapsed = 0
    /\ data = <<>>
    /\ a = 0
    /\ high = 0
    /\ low0 = 0
    /\ N = 0
    /\ midi_file = <<>>
    /\ midi_out = <<>>
    /\ port = "unopened"
    /\ fileWrites = 0
    /\ unmatchedLog = -1
    /\ mpc = "gather"
    /\ enqueued = <<>>
    /\ taken = <<>>
    /\ subs = <<>>

\* the event loop runs another coroutine only when the consumer is at an await
Yielded == cpc # "loop"

----------------------------------------------------------------------------
(* run_ble_client *)

\* find_device_by_name returns None: DeviceNotFoundError is raised.  The
\* consumer task was scheduled right after the client task and has run to its
\* first await while the scan was in progress.
ScanNotFound ==
    /\ mpc = "gather" /\ ppc = "scan" /\ cpc # "start"
    /\ ppc' = "dnf"
    /\ UNCHANGED <<stream, streamed, connected, now, queue, enqueued, cpc, T_cycle0, E_ON,
                   consLocals, midi_file, midi_out, endVars, mpc, taken, subs>>

ScanFound ==
    /\ mpc = "gather" /\ ppc = "scan" /\ cpc # "start"
    /\ ppc' = "connect"
    /\ UNCHANGED <<stream, streamed, connected, now, queue, enqueued, cpc, T_cycle0, E_ON,
                   consLocals, midi_file, midi_out, endVars, mpc, taken, subs>>

\* async with BleakClient(device): the connection is made, T_start is taken,
\* start_notify is awaited
Connect ==
    /\ mpc = "gather" /\ ppc = "connect" /\ Yielded
    /\ ppc' = "start_notify"
    /\ connected' = TRUE
    /\ now' = 0
    /\ UNCHANGED <<stream, streamed, queue, enqueued, cpc, T_cycle0, E_ON,
                   consLocals, midi_file, midi_out, endVars, mpc, taken, subs>>

\* the connection attempt raises: outside the try block, the exception leaves
\* run_ble_client
ConnectFail ==
    /\ mpc = "gather" /\ ppc = "connect" /\ Yielded
    /\ ppc' = "error"
    /\ UNCHANGED <<stream, streamed, connected, now, queue, enqueued, cpc, T_cycle0, E_ON,
                   consLocals, midi_file, midi_out, endVars, mpc, taken, subs>>

\* the link drops while the producer is subscribing or streaming
LinkLost ==
    /\ mpc = "gather" /\ ppc \in {"start_notify", "readline"} /\ Yielded
    /\ connected
    /\ connected' = FALSE
    /\ UNCHANGED <<stream, streamed, ppc, now, queue, enqueued, cpc, T_cycle0, E_ON,
                   consLocals, midi_file, midi_out, endVars, mpc, taken, subs>>

StartNotifyOk ==
    /\ mpc = "gather" /\ ppc = "start_notify" /\ Yielded
    /\ connected
    /\ ppc' = "readline"
    /\ streamed' = TRUE
    /\ UNCHANGED <<stream, connected, now, queue, enqueued, cpc, T_cycle0, E_ON,
                   consLocals, midi_file, midi_out, endVars, mpc, taken, subs>>

\* start_notify raises: caught at line 55, logged, the with block is left
StartNotifyFail ==
    /\ mpc = "gather" /\ ppc = "start_notify" /\ Yielded
    /\ ~connected
    /\ ppc' = "disconnect"
    /\ UNCHANGED <<stream, streamed, connected, now, queue, enqueued, cpc, T_cycle0, E_ON,
                   consLocals, midi_file, midi_out, endVars, mpc, taken, subs>>

\* callback_handler: one notification, stamped with the host time
Callback ==
    /\ mpc = "gather" /\ ppc \in {"readline", "stop_notify"} /\ Yielded
    /\ connected
    /\ NumPackets(enqueued) < MaxPackets
    /\ \E n \in Notifications(stream) :
          /\ now' = now + n.dt
          /\ queue' = QueuePut(queue, Msg(now', n.data))
          /\ enqueued' = Append(enqueued, Msg(now', n.data))
    /\ UNCHANGED <<stream, streamed, ppc, connected, cpc, T_cycle0, E_ON,
                   consLocals, midi_file, midi_out, endVars, mpc, taken, subs>>

\* the operator presses Enter: readline returns, stop_notify is awaited
ReadLine ==
    /\ mpc = "gather" /\ ppc = "readline" /\ Yielded
    /\ ppc' = "stop_notify"
    /\ UNCHANGED <<stream, streamed, connected, now, queue, enqueued, cpc, T_cycle0, E_ON,
                   consLocals, midi_file, midi_out, endVars, mpc, taken, subs>>

\* stop_notify returns; the sentinel is put without suspending (the queue is
\* unbounded); the with block is left
StopNotifyOk ==
    /\ mpc = "gather" /\ ppc = "stop_notify" /\ Yielded
    /\ connected
    /\ queue' = QueuePut(queue, Msg(now, None))
    /\ enqueued' = Append(enqueued, Msg(now, None))
    /\ ppc' = "disconnect"
    /\ UNCHANGED <<stream, streamed, connected, now, cpc, T_cycle0, E_ON,
                   consLocals, midi_file, midi_out, endVars, mpc, taken, subs>>

\* faulty variant: the sentinel is put although stop_notify raised
StopNotifyFail_sentinel ==
    /\ mpc = "gather" /\ ppc = "stop_notify" /\ Yielded
    /\ ~connected
    /\ queue' = QueuePut(queue, Msg(now, None))
    /\ enqueued' = Append(enqueued, Msg(now, None))
    /\ ppc' = "disconnect"
    /\ UNCHANGED <<stream, streamed, connected, now, cpc, T_cycle0, E_ON,
                   consLocals, midi_file, midi_out, endVars, mpc, taken, subs>>

\* stop_notify raises: caught at line 55, logged, line 54 is skipped
StopNotifyFail ==
    /\ mpc = "gather" /\ ppc = "stop_notify" /\ Yielded
    /\ ~connected
    /\ ppc' = "disconnect"
    /\ UNCHANGED <<stream, streamed, connected, now, queue, enqueued, cpc, T_cycle0, E_ON,
                   consLocals, midi_file, midi_out, endVars, mpc, taken, subs>>

\* BleakClient.__aexit__ has disconnected; "disconnected" is logged
Disconnected ==
    /\ mpc = "gather" /\ ppc = "disconnect" /\ Yielded
    /\ ppc' = "done"
    /\ connected' = FALSE
    /\ UNCHANGED <<stream, streamed, now, queue, enqueued, cpc, T_cycle0, E_ON,
                   consLocals, midi_file, midi_out, endVars, mpc, taken, subs>>

----------------------------------------------------------------------------
(* run_queue_consumer: decoding helpers *)

\* faulty variant: the mask 0x01 instead of 0x03
ss_mask1(d) == (Len(d) - 1) % 2

\* ss = (len(data) - 1) & 0x03
ss(d) == (Len(d) - 1) % 4

\* data[0] & 0x3f
HeaderHigh(d) == Byte(d, 0) % 64

\* data[i] & 0x7f
LowOf(d, i) == Byte(d, i) % 128

\* faulty variant: low <= low0
NextHigh_le(h, l0, l) == IF l <= l0 THEN h + 1 ELSE h

\* if(low < low0): high += 1
NextHigh(h, l0, l) == IF l < l0 THEN h + 1 ELSE h

\* T_packet = high << 7 | low     (low < 128, so the or is an addition)
TPacket(h, l) == h * 128 + l

\* if T_cycle0 == 0: T_cycle0 = T_elapsed - T_packet
Cycle0(c0, te, tp) == IF c0 = 0 THEN te - tp ELSE c0

\* else: N = (T_elapsed - T_cycle0) // 8192
WrapCount(c0, n, te) == IF c0 = 0 THEN n ELSE (te - c0) \div Cycle

\* DT = (T_elapsed - T_cycle0) % 8192
DTOf(te, c0) == (te - c0) % Cycle

\* the time correction of lines 114-120
Correct(n, dt, tp) ==
    IF Abs(dt - tp) > HalfCycle
    THEN IF tp > dt THEN n - 1 ELSE n + 1
    ELSE n

\* T_event = T_cycle0 + 8192 * M + T_packet
TEvent(c0, m, tp) == c0 + Cycle * m + tp

\* data[i] & 0x0f
ChannelOf(d, i) == Byte(d, i) % 16

\* data[i] & 0xf0
StatusOf(d, i) == Byte(d, i) - (Byte(d, i) % 16)

\* the values of the loop body for the group at index a
low == LowOf(data, a)
cur_high == NextHigh(high, low0, low)
T_packet == TPacket(cur_high, low)
cur_cycle0 == Cycle0(T_cycle0, T_elapsed, T_packet)
cur_N == WrapCount(T_cycle0, N, T_elapsed)
DT == DTOf(T_elapsed, cur_cycle0)
M == Correct(cur_N, DT, T_packet)
T_event == TEvent(cur_cycle0, M, T_packet)
channel == ChannelOf(data, a + 1)
status == StatusOf(data, a + 1)

\* for a in range(1, len(data) - 1, 4)
InRange(i, d) == i < Len(d) - 1

----------------------------------------------------------------------------
(* run_queue_consumer: the note correlator *)

\* for i, ev in enumerate(E_ON): if ev[1] == pitch: ... break
\* the position of the first pending note with this pitch, 0 when there is none
FirstMatch(E, p) ==
    IF \E i \in 1..Len(E) : E[i][2] = p
    THEN CHOOSE i \in 1..Len(E) :
            /\ E[i][2] = p
            /\ \A j \in 1..(i - 1) : E[j][2] # p
    ELSE 0

\* faulty variant: E_ON.pop(0) instead of E_ON.pop(i)
Pop_first(E, i) == Tail(E)

\* E_ON.pop(i)
Pop(E, i) == SubSeq(E, 1, i - 1) \o SubSeq(E, i + 1, Len(E))

\* faulty variant: the note-off is sent before the search
NoteOffOut_always(out, i, msg) == Append(out, msg)

\* midi_out.send_message([0x80, ...]) inside the match
NoteOffOut(out, i, msg) == IF i # 0 THEN Append(out, msg) ELSE out

\* midi_file.addNote(0, channel, ev[1], ev[0]/quarter(), (T_event - ev[0])/quarter(), ev[2])
\* sent: the number of messages sent to the port when the call is made
AddNote(file, ch, ev, tev, sent) ==
    Append(file, [kind |-> "note", track |-> 0, channel |-> ch, pitch |-> ev[2],
                  time |-> Beats(ev[1]), duration |-> Beats(tev - ev[1]),
                  volume |-> ev[3], sent |-> sent])

NoteOffFile(file, i, E, ch, tev, sent) ==
    IF i # 0 THEN AddNote(file, ch, E[i], tev, sent) ELSE file

\* faulty variant: a matched note stays pending
NoteOffPending_keep(E, i) == E

\* E_ON.pop(i) inside the match
NoteOffPending(E, i) == IF i # 0 THEN Pop(E, i) ELSE E

\* faulty variant: the duplicate check never fires
Dup_none(E, p) == 0

\* dup: the number of pending notes with this pitch
Dup(E, p) == Cardinality({i \in 1..Len(E) : E[i][2] = p})

NoteOnOut(out, dup, msg) == IF dup = 0 THEN Append(out, msg) ELSE out

NoteOnPending(E, dup, ev) == IF dup = 0 THEN Append(E, ev) ELSE E

\* faulty variant: the controller change is not sent live
ControllerOut_none(out, msg) == out

\* midi_out.send_message([0xb0, data[a+2], data[a+3]])
ControllerOut(out, msg) == Append(out, msg)

\* midi_file.addControllerEvent(0, channel, T_event/quarter(), data[a+2], data[a+3])
AddControllerEvent(file, ch, tev, ctl, val, sent) ==
    Append(file, [kind |-> "cc", track |-> 0, channel |-> ch, time |-> Beats(tev),
                  controller |-> ctl, value |-> val, sent |-> sent])

\* faulty variant: the count is not logged
LogUnmatched_never(E, logged) == logged

\* if len(E_ON) != 0: logger.info("%d unmatched note on", len(E_ON))
LogUnmatched(E, logged) == IF Len(E) # 0 THEN Len(E) ELSE logged

----------------------------------------------------------------------------
(* run_queue_consumer: actions *)

\* lines 62-73: the file object is created, the port is opened
ConsumerStart ==
    /\ mpc = "gather" /\ cpc = "start"
    /\ cpc' = "get"
    /\ port' = "open"
    /\ UNCHANGED <<stream, streamed, prodVars, T_cycle0, E_ON, consLocals, midi_file,
                   midi_out, fileWrites, unmatchedLog, mpc, taken, subs>>

\* lines 78-89: the sentinel is taken
GetSentinel ==
    /\ mpc = "gather" /\ cpc = "get" /\ queue # <<>>
    /\ IsNone(QueueGet(queue).data)
    /\ queue' = QueueRest(queue)
    /\ taken' = Append(taken, QueueGet(queue))
    /\ T_elapsed' = QueueGet(queue).T
    /\ data' = QueueGet(queue).data
    /\ port' = "closed"
    /\ unmatchedLog' = LogUnmatched(E_ON, unmatchedLog)
    /\ fileWrites' = fileWrites + 1
    /\ cpc' = "done"
    /\ UNCHANGED <<stream, streamed, ppc, connected, now, enqueued, T_cycle0, E_ON,
                   a, high, low0, N, midi_file, midi_out, mpc, subs>>

\* lines 78, 92-95: a payload of the wrong size is logged and skipped
GetMalformed ==
    /\ mpc = "gather" /\ cpc = "get" /\ queue # <<>>
    /\ ~IsNone(QueueGet(queue).data)
    /\ ss(QueueGet(queue).data) # 0
    /\ queue' = QueueRest(queue)
    /\ taken' = Append(taken, QueueGet(queue))
    /\ T_elapsed' = QueueGet(queue).T
    /\ data' = QueueGet(queue).data
    /\ UNCHANGED <<stream, streamed, ppc, connected, now, enqueued, cpc, T_cycle0, E_ON,
                   a, high, low0, N, midi_file, midi_out, endVars, mpc, subs>>

\* lines 78, 92-101: a payload of the right size with at least one group
GetPacket ==
    /\ mpc = "gather" /\ cpc = "get" /\ queue # <<>>
    /\ ~IsNone(QueueGet(queue).data)
    /\ ss(QueueGet(queue).data) = 0
    /\ Len(QueueGet(queue).data) >= 2
    /\ queue' = QueueRest(queue)
    /\ taken' = Append(taken, QueueGet(queue))
    /\ T_elapsed' = QueueGet(queue).T
    /\ data' = QueueGet(queue).data
    /\ high' = HeaderHigh(data')
    /\ low0' = LowOf(data', 1)
    /\ N' = 0
    /\ a' = 1
    /\ cpc' = "loop"
    /\ UNCHANGED <<stream, streamed, ppc, connected, now, enqueued, T_cycle0, E_ON,
                   midi_file, midi_out, endVars, mpc, subs>>

\* lines 78, 92-98: a payload of length 1 passes the size check and data[1]
\* raises IndexError, which leaves run_queue_consumer
GetHeaderOnly ==
    /\ mpc = "gather" /\ cpc = "get" /\ queue # <<>>
    /\ ~IsNone(QueueGet(queue).data)
    /\ ss(QueueGet(queue).data) = 0
    /\ Len(QueueGet(queue).data) < 2
    /\ queue' = QueueRest(queue)
    /\ taken' = Append(taken, QueueGet(queue))
    /\ T_elapsed' = QueueGet(queue).T
    /\ data' = QueueGet(queue).data
    /\ high' = HeaderHigh(data')
    /\ cpc' = "error"
    /\ UNCHANGED <<stream, streamed, ppc, connected, now, enqueued, T_cycle0, E_ON,
                   a, low0, N, midi_file, midi_out, endVars, mpc, subs>>

\* lines 102-121: the clock part of the loop body, and the loop control
ClockStep ==
    /\ mpc = "gather" /\ cpc = "loop" /\ InRange(a, data)
    /\ high' = cur_high
    /\ low0' = low
    /\ T_cycle0' = cur_cycle0
    /\ N' = cur_N
    /\ subs' = Append(subs, [pk |-> Len(taken), grp |-> a, arr |-> T_elapsed,
                             lo |-> low, hi |-> cur_high, loc |-> T_packet,
                             ep |-> cur_cycle0, n |-> cur_N, m |-> M,
                             ev |-> T_event])
    /\ IF InRange(a + 4, data)
       THEN a' = a + 4 /\ cpc' = "loop"
       ELSE a' = a /\ cpc' = "get"
    /\ UNCHANGED <<stream, streamed, prodVars, T_elapsed, data, endVars, mpc, taken>>

\* faulty variant: the channel test comes before the clock code
GroupOtherChannel_early ==
    /\ mpc = "gather" /\ cpc = "loop" /\ InRange(a, data)
    /\ channel # 0
    /\ IF InRange(a + 4, data)
       THEN a' = a + 4 /\ cpc' = "loop"
       ELSE a' = a /\ cpc' = "get"
    /\ UNCHANGED <<stream, streamed, prodVars, T_cycle0, E_ON, T_elapsed, data,
                   high, low0, N, midi_file, midi_out, endVars, mpc, taken, subs>>

\* lines 123-125: a group on another channel
GroupOtherChannel ==
    /\ ClockStep
    /\ channel # 0
    /\ UNCHANGED noteVars

\* lines 129-140
GroupNoteOff ==
    /\ ClockStep
    /\ channel = 0 /\ status = 128
    /\ LET i == FirstMatch(E_ON, Byte(data, a + 2)) IN
          /\ midi_out' = NoteOffOut(midi_out, i,
                                    <<128, Byte(data, a + 2), Byte(data, a + 3)>>)
          /\ midi_file' = NoteOffFile(midi_file, i, E_ON, channel, T_event,
                                      Len(midi_out'))
          /\ E_ON' = NoteOffPending(E_ON, i)

\* lines 142-150
GroupNoteOn ==
    /\ ClockStep
    /\ channel = 0 /\ status = 144
    /\ LET dup == Dup(E_ON, Byte(data, a + 2)) IN
          /\ midi_out' = NoteOnOut(midi_out, dup,
                                   <<144, Byte(data, a + 2), Byte(data, a + 3)>>)
          /\ E_ON' = NoteOnPending(E_ON, dup,
                                   <<T_event, Byte(data, a + 2), Byte(data, a + 3)>>)
          /\ UNCHANGED midi_file

\* lines 152-154
GroupController ==
    /\ ClockStep
    /\ channel = 0 /\ status = 176
    /\ midi_out' = ControllerOut(midi_out,
                                 <<176, Byte(data, a + 2), Byte(data, a + 3)>>)
    /\ midi_file' = AddControllerEvent(midi_file, channel, T_event,
                                       Byte(data, a + 2), Byte(data, a + 3),
                                       Len(midi_out'))
    /\ UNCHANGED E_ON

\* lines 156-157
GroupIgnored ==
    /\ ClockStep
    /\ channel = 0 /\ status \notin {128, 144, 176}
    /\ UNCHANGED noteVars

----------------------------------------------------------------------------
(* main *)

Finished(pc) == pc \in {"done", "dnf", "error", "cancelled"}

\* what asyncio.run does to a task that is still pending when main is over
Cancel(pc) == IF Finished(pc) THEN pc ELSE "cancelled"

\* gather returns: both tasks have returned
MainReturn ==
    /\ mpc = "gather" /\ ppc = "done" /\ cpc = "done"
    /\ mpc' = "done"
    /\ UNCHANGED <<stream, streamed, prodVars, cpc, T_cycle0, E_ON, consLocals, midi_file,
                   midi_out, endVars, taken, subs>>

\* lines 166-169: DeviceNotFoundError is caught; asyncio.run cancels what is left
MainCatch ==
    /\ mpc = "gather" /\ ppc = "dnf" /\ Yielded
    /\ mpc' = "done"
    /\ cpc' = Cancel(cpc)
    /\ UNCHANGED <<stream, streamed, prodVars, T_cycle0, E_ON, consLocals, midi_file,
                   midi_out, endVars, taken, subs>>

\* any other exception of a task leaves main; asyncio.run cancels what is left
MainRaise ==
    /\ mpc = "gather" /\ (ppc = "error" \/ cpc = "error")
    /\ mpc' = "raised"
    /\ ppc' = Cancel(ppc)
    /\ cpc' = Cancel(cpc)
    /\ connected' = FALSE
    /\ UNCHANGED <<stream, streamed, now, queue, enqueued, T_cycle0, E_ON, consLocals,
                   midi_file, midi_out, endVars, taken, subs>>

----------------------------------------------------------------------------
Next ==
    \/ ScanNotFound
    \/ ScanFound
    \/ Connect
    \/ ConnectFail
    \/ LinkLost
    \/ StartNotifyOk
    \/ StartNotifyFail
    \/ Callback
    \/ ReadLine
    \/ StopNotifyOk
    \/ StopNotifyFail
    \/ Disconnected
    \/ ConsumerStart
    \/ GetSentinel
    \/ GetMalformed
    \/ GetPacket
    \/ GetHeaderOnly
    \/ GroupOtherChannel
    \/ GroupNoteOff
    \/ GroupNoteOn
    \/ GroupController
    \/ GroupIgnored
    \/ MainReturn
    \/ MainCatch
    \/ MainRaise

Spec == Init /\ [][Next]_vars

TypeOK ==
    /\ stream \in Streams
    /\ ppc \in {"scan", "connect", "start_notify", "readline", "stop_notify",
                "disconnect", "done", "dnf", "error", "cancelled"}
    /\ cpc \in {"start", "get", "loop", "done", "error", "cancelled"}
    /\ mpc \in {"gather", "done", "raised"}
    /\ port \in {"unopened", "open", "closed"}
    /\ connected \in BOOLEAN
    /\ streamed \in BOOLEAN
    /\ fileWrites \in Nat
    /\ cpc = "loop" => InRange(a, data)

----------------------------------------------------------------------------
(* Properties *)

Notes == {i \in 1..Len(midi_file) : midi_file[i].kind = "note"}

\* C1: every note of the Timeline has a duration (note-off event time minus
\* the pending note's onset) that is >= 0, whatever well-formed packets
\* arrive at non-decreasing times.
C1_NonNegativeDuration ==
    \A i \in Notes : midi_file[i].duration.num >= 0

\* The hypothesis of C2, read off the history of sub-events.  The epoch is
\* the one the first sub-event establishes.  The true elapsed time of
\* sub-event i is the t with t mod 8192 = its local clock and
\* |arrival - (epoch + t)| < 4096; there is at most one.
FirstEpoch == subs[1].arr - subs[1].loc

TrueTimes(i) ==
    LET k0 == (subs[i].arr - FirstEpoch) \div Cycle
    IN  {t \in {subs[i].loc + Cycle * k : k \in (k0 - 2)..(k0 + 2)} :
            /\ t % Cycle = subs[i].loc
            /\ Abs(subs[i].arr - (FirstEpoch + t)) < HalfCycle}

TrueTime(i) == CHOOSE t \in TrueTimes(i) : TRUE

BoundedDrift ==
    /\ \A i \in 1..Len(subs) : TrueTimes(i) # {}
    /\ \A i \in 1..(Len(subs) - 1) : TrueTime(i) <= TrueTime(i + 1)

\* C2: when the true elapsed time since the epoch is non-decreasing, the
\* local clock is that time modulo 8192 and every arrival is within 4096 ms
\* of epoch + true time, the computed T_event never decreases from one
\* sub-event to the next.
C2_MonotoneTimestamps ==
    BoundedDrift =>
        \A i \in 1..(Len(subs) - 1) : subs[i].ev <= subs[i + 1].ev

\* C3: the epoch T_cycle0 is assigned on the first decoded sub-event, as
\* arrival time minus local clock, and no later sub-event assigns it again.
C3_EpochAssignedOnce ==
    [][/\ (subs = <<>> /\ subs' # <<>>) =>
              T_cycle0' = subs'[1].arr - subs'[1].loc
       /\ subs # <<>> => T_cycle0' = T_cycle0]_vars

\* Sanity of the model of the unwrapper, not a claim: as long as the epoch
\* is not reassigned, the hypothesis of C2 makes T_event = epoch + true time.
EpochKept == \A i \in 1..Len(subs) : subs[i].ep = FirstEpoch

UnwrapExact ==
    (BoundedDrift /\ EpochKept) =>
        \A i \in 1..Len(subs) : subs[i].ev = FirstEpoch + TrueTime(i)

----------------------------------------------------------------------------
(* The step the consumer is about to take, read from the raw bytes.  In the
   loop the group at index a is data[a] .. data[a+3] in Python, that is
   data[a+1] .. data[a+4] here; its second byte is status | channel. *)

AtGroup == cpc = "loop"
GroupStatusByte == data[a + 2]
GroupPitch == data[a + 3]
GroupVelocity == data[a + 4]
HasPending(p) == \E i \in 1..Len(E_ON) : E_ON[i][2] = p
Stepped == subs' # subs
StepEvent == subs'[Len(subs')].ev

\* the payload length minus 1 is a multiple of 4
WellSized(d) == \E k \in 0..Len(d) : Len(d) - 1 = 4 * k

\* the consumer takes a message off the queue in this step
Takes == taken' # taken
TakenMsg == taken'[Len(taken')]

\* C4: a payload whose length minus 1 is not a multiple of 4 emits no
\* sub-event, leaves the epoch, the pending notes, the Timeline and the live
\* output unchanged, and the consumer goes on to take the next message.
C4_MalformedDropped ==
    [][(Takes /\ TakenMsg.data # None /\ ~WellSized(TakenMsg.data)) =>
           /\ subs' = subs
           /\ T_cycle0' = T_cycle0
           /\ E_ON' = E_ON
           /\ midi_file' = midi_file
           /\ midi_out' = midi_out
           /\ port' = port /\ fileWrites' = fileWrites
           /\ cpc' = "get"]_vars

C4_Witness ==
    \E i \in 1..(Len(taken) - 1) :
        /\ taken[i].data # None
        /\ ~WellSized(taken[i].data)
        /\ WellSized(taken[i + 1].data)
        /\ subs # <<>>

\* C5: a channel-0 note-off for pitch P while a note with pitch P is pending
\* removes exactly that pending note, sends the note-off live and appends one
\* Timeline note: pitch P, onset of the pending note, duration = event time
\* minus onset, velocity of the note-on.
C5_MatchedNoteOff ==
    [][(AtGroup /\ Stepped /\ GroupStatusByte = 128 /\ HasPending(GroupPitch)) =>
           \E i \in 1..Len(E_ON) :
               /\ E_ON[i][2] = GroupPitch
               /\ Len(E_ON') = Len(E_ON) - 1
               /\ \A j \in 1..Len(E_ON') :
                      E_ON'[j] = IF j < i THEN E_ON[j] ELSE E_ON[j + 1]
               /\ midi_out' = Append(midi_out, <<128, GroupPitch, GroupVelocity>>)
               /\ Len(midi_file') = Len(midi_file) + 1
               /\ SubSeq(midi_file', 1, Len(midi_file)) = midi_file
               /\ LET r == midi_file'[Len(midi_file')] IN
                      /\ r.kind = "note"
                      /\ r.pitch = GroupPitch
                      /\ r.time.num = E_ON[i][1]
                      /\ r.duration.num = StepEvent - E_ON[i][1]
                      /\ r.time.den = quarter /\ r.duration.den = quarter
                      /\ r.volume = E_ON[i][3]]_vars

\* a note-off for the second of two pending notes has been paired: the
\* Timeline holds the note with the note-on's velocity, the other stays pending
C5_Witness ==
    /\ Len(midi_file) = 1 /\ midi_file[1].kind = "note"
    /\ midi_file[1].pitch = 64 /\ midi_file[1].volume = 90
    /\ midi_out[Len(midi_out)] = <<128, 64, 64>>
    /\ Len(E_ON) = 1 /\ E_ON[1][2] = 60

\* C6: a channel-0 note-on for a pitch that is already pending sends nothing,
\* leaves the pending notes and the Timeline unchanged; a note-on for a pitch
\* that is not pending appends one pending note and is sent live.
C6_NoteOn ==
    [][(AtGroup /\ Stepped /\ GroupStatusByte = 144) =>
           /\ midi_file' = midi_file
           /\ IF HasPending(GroupPitch)
              THEN midi_out' = midi_out /\ E_ON' = E_ON
              ELSE /\ midi_out' = Append(midi_out, <<144, GroupPitch, GroupVelocity>>)
                   /\ E_ON' = Append(E_ON, <<StepEvent, GroupPitch, GroupVelocity>>)]_vars

\* note-on 60 velocity 100, then note-on 60 velocity 50: one pending note
\* with the first onset and velocity, one message sent
C6_Witness ==
    /\ cpc = "get" /\ Len(taken) = 2
    /\ taken[1].data = <<128, 128, 144, 60, 100>>
    /\ taken[2].data = <<128, 128, 144, 60, 50>>
    /\ E_ON = << <<100, 60, 100>> >>
    /\ midi_out = << <<144, 60, 100>> >>

\* C7: a channel-0 note-off for a pitch that is not pending sends nothing,
\* appends nothing to the Timeline and leaves the pending notes unchanged.
C7_UnmatchedNoteOff ==
    [][(AtGroup /\ Stepped /\ GroupStatusByte = 128 /\ ~HasPending(GroupPitch)) =>
           /\ midi_out' = midi_out
           /\ midi_file' = midi_file
           /\ E_ON' = E_ON]_vars

\* a note-off for 64 was decoded while only 60 was pending
C7_Witness ==
    /\ cpc = "get" /\ Len(taken) = 2
    /\ taken[1].data = <<128, 128, 144, 60, 100>>
    /\ taken[2].data = <<128, 136, 128, 64, 64>>
    /\ Len(subs) = 2
    /\ E_ON = << <<100, 60, 100>> >>
    /\ midi_out = << <<144, 60, 100>> >> /\ midi_file = <<>>

----------------------------------------------------------------------------
(* Pipeline properties *)

FirstSentinel(h) == CHOOSE k \in 1..Len(h) :
                        /\ h[k].data = None
                        /\ \A j \in 1..(k - 1) : h[j].data # None

\* the groups of message j that have been decoded, correlated and dispatched
Decoded(j) == {subs[i].grp : i \in {n \in 1..Len(subs) : subs[n].pk = j}}

\* the group indices of a payload
Groups(d) == IF WellSized(d) THEN {1 + 4 * k : k \in 0..((Len(d) - 5) \div 4)} ELSE {}

\* C8: the consumer takes the messages in the order the producer enqueued
\* them, each at most once and one at a time; every real packet enqueued
\* before the sentinel has been fully decoded and dispatched before the live
\* output is closed and the file is written.
C8_FifoDrain ==
    /\ enqueued = taken \o queue
    /\ \A j \in 1..(Len(taken) - 1) :
           taken[j].data # None => Decoded(j) = Groups(taken[j].data)
    /\ \A i \in 1..(Len(subs) - 1) : subs[i].pk <= subs[i + 1].pk
    /\ (port = "closed" \/ fileWrites > 0) =>
           /\ NumSentinels(enqueued) > 0
           /\ Len(taken) = FirstSentinel(enqueued)
           /\ \A j \in 1..(FirstSentinel(enqueued) - 1) :
                  /\ taken[j] = enqueued[j]
                  /\ Decoded(j) = Groups(enqueued[j].data)

\* three packets were taken and decoded in order, the sentinel after them, and
\* the session closed
C8_Witness ==
    /\ fileWrites = 1 /\ port = "closed"
    /\ NumPackets(taken) = 3
    /\ Len(subs) >= 3

\* C9: whenever a session that reached Streaming ends, by operator stop or
\* by transport termination, the producer has enqueued exactly one sentinel
\* before its task exits.
C9_SentinelOnEnd ==
    (streamed /\ ppc = "done") => NumSentinels(enqueued) = 1

\* C10: the event file is written at most once, and only by the consumer
\* when it takes the sentinel; when the device is not found, or the consumer
\* never gets the sentinel, no file is written.
C10_FileWrittenOnce ==
    /\ fileWrites <= 1
    /\ fileWrites > 0 => (NumSentinels(taken) = 1 /\ cpc = "done")
    /\ NumSentinels(taken) = 0 => fileWrites = 0
    /\ ppc = "dnf" => fileWrites = 0
    /\ cpc \in {"error", "cancelled"} => fileWrites = 0

\* a session with recorded events closed and the file was written once
C10_Witness ==
    /\ fileWrites = 1 /\ mpc = "done"
    /\ midi_file # <<>>

----------------------------------------------------------------------------
(* Clock and decoding properties *)

\* C11: for every well-formed payload and every group in it, the
\* reconstructed local clock T_packet (high << 7 | low) is a 13-bit value in
\* 0..8191, also when the header's high field is 63 and the low field rolls
\* over within the packet.
C11_PacketClock13Bit ==
    \A i \in 1..Len(subs) : subs[i].loc \in 0..(Cycle - 1)

\* C12: when the sentinel is taken while k >= 1 notes are pending, none of
\* them is added to the Timeline, the count logged is k, and the session
\* closes with the file written.  (With no pending note nothing is logged.)
C12_PendingDroppedAtEnd ==
    [][(Takes /\ TakenMsg.data = None) =>
           /\ midi_file' = midi_file
           /\ E_ON' = E_ON
           /\ Len(E_ON) >= 1 => unmatchedLog' = Len(E_ON)
           /\ Len(E_ON) = 0 => unmatchedLog' = unmatchedLog
           /\ port' = "closed"
           /\ fileWrites' = fileWrites + 1
           /\ cpc' = "done"]_vars

\* the session of spec scenario E: closed with notes 60 and 64 pending
C12_Witness ==
    /\ cpc = "done" /\ fileWrites = 1 /\ port = "closed"
    /\ Len(E_ON) = 2 /\ unmatchedLog = 2
    /\ Notes = {}

\* C13: when the device cannot be found, the consumer task has not begun
\* running (no file object, no open port, not waiting on the queue) at the
\* moment DeviceNotFoundError is raised.
C13_NoTaskStartedOnDeviceNotFound ==
    (ppc = "dnf" /\ mpc = "gather") => (cpc = "start" /\ port = "unopened")

----------------------------------------------------------------------------
(* The missing sentinel *)

\* start_notify or stop_notify raises in this step: the link is down while
\* the producer waits for one of them, and the producer moves on
NotifyError ==
    /\ ppc \in {"start_notify", "stop_notify"}
    /\ ~connected
    /\ ppc' # ppc
    /\ mpc' = "gather"

\* the producer has returned, nothing is queued and none will be, the
\* consumer waits in queue.get() with the port open and no file written
ConsumerStuck ==
    /\ ppc = "done"
    /\ NumSentinels(enqueued) = 0
    /\ queue = <<>>
    /\ cpc = "get"
    /\ mpc = "gather"
    /\ port = "open"
    /\ fileWrites = 0

\* C14: an error while subscribing or while tearing down the subscription
\* makes the producer exit without the sentinel; once the producer is gone
\* and the queue is empty the consumer waits forever: the live output is
\* never closed and the file is never written.
C14_NoSentinelOnError ==
    [][/\ NotifyError => (ppc' = "disconnect" /\ enqueued' = enqueued /\ queue' = queue)
       /\ ConsumerStuck => ConsumerStuck']_vars

\* the link dropped during a recording: the packets were consumed, the
\* producer is gone and the consumer is stuck
C14_Witness ==
    /\ ConsumerStuck
    /\ streamed
    /\ NumPackets(taken) >= 1
    /\ midi_out # <<>>

\* C15: every payload whose length minus 1 is a multiple of 4, the
\* header-only payload of length 1 included, is processed without an error
\* being raised, and the consumer goes on to take the next message.
C15_WellSizedNeverRaises ==
    (\A j \in 1..Len(taken) : taken[j].data # None => WellSized(taken[j].data))
        => cpc # "error"

\* the header's high field of the packet sub-event i belongs to
PacketHigh(i) == taken[subs[i].pk].data[1] % 64

FirstOfPacket(i) == i = 1 \/ subs[i - 1].pk # subs[i].pk

\* C16: within one packet the high field grows by exactly 1 at each group
\* whose low field is less than the previous group's low field and is
\* unchanged otherwise; the first group never rolls over; so the local-clock
\* values of a packet's groups are non-decreasing in group order.
C16_RolloverPerGroup ==
    \A i \in 1..Len(subs) :
        IF FirstOfPacket(i)
        THEN subs[i].hi = PacketHigh(i)
        ELSE /\ subs[i].hi = subs[i - 1].hi
                                + (IF subs[i].lo < subs[i - 1].lo THEN 1 ELSE 0)
             /\ subs[i - 1].loc <= subs[i].loc

\* a packet whose second group rolled over, and one whose second group did not
C16_Witness ==
    /\ \E i \in 2..Len(subs) :
           /\ ~FirstOfPacket(i)
           /\ subs[i].lo < subs[i - 1].lo
           /\ subs[i].hi = subs[i - 1].hi + 1
    /\ \E i \in 2..Len(subs) :
           /\ ~FirstOfPacket(i)
           /\ subs[i].lo > subs[i - 1].lo
           /\ subs[i].hi = subs[i - 1].hi

\* the consumer finishes the group at index a in this step
GroupStep == AtGroup /\ (a' # a \/ cpc' # cpc)

GroupLow == data[a + 1] % 128

\* the group's channel nibble is not 0, or its status nibble is none of
\* 0x80, 0x90, 0xB0
GroupDiscarded ==
    \/ GroupStatusByte % 16 # 0
    \/ (GroupStatusByte - (GroupStatusByte % 16)) \notin {128, 144, 176}

\* C17: a group on another channel or with another status sends nothing and
\* leaves the pending notes and the Timeline unchanged, but still updates the
\* clock: it takes part in the rollover tracking and, as the first sub-event
\* of the session, establishes the epoch.
C17_DiscardedGroupKeepsClock ==
    [][(GroupStep /\ GroupDiscarded) =>
           /\ midi_out' = midi_out
           /\ E_ON' = E_ON
           /\ midi_file' = midi_file
           /\ low0' = GroupLow
           /\ high' = high + (IF GroupLow < low0 THEN 1 ELSE 0)
           /\ Len(subs') = Len(subs) + 1
           /\ subs = <<>> => T_cycle0' = T_elapsed - (high' * 128 + GroupLow)]_vars

\* a pitch-bend group was the first sub-event and set the epoch 100 - 0; a
\* later packet's channel-1 group rolled the low field over
C17_Witness ==
    /\ Len(taken) = 2 /\ cpc = "get"
    /\ taken[1].data = <<128, 128, 224, 0, 64>>
    /\ taken[2].data = <<128, 136, 144, 60, 100, 128, 145, 60, 100>>
    /\ T_cycle0 = 100
    /\ high = 1 /\ low0 = 0
    /\ midi_out = << <<144, 60, 100>> >>

\* the 3-byte message of the group being processed
GroupMessage == <<GroupStatusByte, GroupPitch, GroupVelocity>>

\* C18: every step that appends an entry to the Timeline is the processing
\* of one sub-event which first sends that sub-event's 3-byte message to the
\* live output: the entry is appended with the message already sent as the
\* last one.  A controller change is sent, recorded with the event time of
\* its own sub-event, and leaves the pending notes as they were.
C18_LiveBeforeTimeline ==
    [][midi_file' # midi_file =>
           /\ AtGroup /\ Stepped
           /\ Len(midi_file') = Len(midi_file) + 1
           /\ SubSeq(midi_file', 1, Len(midi_file)) = midi_file
           /\ midi_out' = Append(midi_out, GroupMessage)
           /\ LET r == midi_file'[Len(midi_file')] IN
                 /\ r.sent = Len(midi_out')
                 /\ r.kind = "note" =>
                       /\ GroupStatusByte = 128
                       /\ r.pitch = GroupPitch
                 /\ r.kind = "cc" =>
                       /\ GroupStatusByte = 176
                       /\ r.controller = GroupPitch
                       /\ r.value = GroupVelocity
                       /\ r.time = Beats(StepEvent)
                       /\ E_ON' = E_ON]_vars

C18_Witness ==
    /\ Len(E_ON) = 1
    /\ \E i, j \in 1..Len(midi_file) :
          /\ midi_file[i].kind = "cc" /\ midi_out[midi_file[i].sent][1] = 176
          /\ midi_file[j].kind = "note" /\ midi_out[midi_file[j].sent][1] = 128

\* the status byte and the pitch of sub-event i, read from the packet taken
SubStatusByte(i) == taken[subs[i].pk].data[subs[i].grp + 2]
SubPitch(i) == taken[subs[i].pk].data[subs[i].grp + 3]

\* sub-event i is a channel-0 note-on / note-off for pitch p
IsOn(i, p) == SubStatusByte(i) = 144 /\ SubPitch(i) = p
IsOff(i, p) == SubStatusByte(i) = 128 /\ SubPitch(i) = p

\* pitch p has an unmatched channel-0 note-on: some note-on for p is not
\* followed by a note-off for p
Unmatched(p) ==
    \E i \in 1..Len(subs) : IsOn(i, p) /\ \A j \in (i + 1)..Len(subs) : ~IsOff(j, p)

\* the second byte of every sub-event decoded so far; no other pitch has
\* had a note-on
SeenPitches == {SubPitch(i) : i \in 1..Len(subs)}

\* C19: the pending list holds an entry for pitch P exactly when some
\* channel-0 note-on for P has been processed with no channel-0 note-off for
\* P after it, and it never holds two entries with the same pitch.
C19_PendingIffUnmatched ==
    /\ \A i \in 1..Len(E_ON) : E_ON[i][2] \in SeenPitches
    /\ \A p \in SeenPitches : HasPending(p) <=> Unmatched(p)
    /\ \A i, j \in 1..Len(E_ON) : E_ON[i][2] = E_ON[j][2] => i = j

\* note-on 60, note-off 60, then a packet with note-on 60 and note-on 64:
\* one note is in the Timeline and both pitches are pending again
C19_Witness ==
    /\ Len(subs) = 4 /\ cpc = "get"
    /\ IsOn(1, 60) /\ IsOff(2, 60) /\ IsOn(3, 60) /\ IsOn(4, 64)
    /\ Len(E_ON) = 2 /\ Len(midi_file) = 1

\* C20: for every decoded sub-event, with the epoch in force when it is
\* decoded, the event time minus the epoch is congruent to the local clock
\* modulo 8192, the event time is within 4096 ms of the packet's arrival
\* time, and the corrected wrap count differs from the wrap count by at
\* most one.
C20_EventNearArrival ==
    \A i \in 1..Len(subs) :
        /\ (subs[i].ev - subs[i].ep) % Cycle = subs[i].loc % Cycle
        /\ Abs(subs[i].ev - subs[i].arr) <= HalfCycle
        /\ Abs(subs[i].m - subs[i].n) <= 1

====
